---------------------------- MODULE Spec2Model ----------------------------
(***************************************************************************)
(* A model of PluginsService (server side plugin management of the         *)
(* homebridge-config-ui-x console): plugin discovery with its concurrent   *)
(* per-candidate parse/enrich steps, the npm registry client, the npm      *)
(* command runner and the operations composed from them.                   *)
(*                                                                         *)
(* Strings that the code takes apart (package names, commands) are         *)
(* sequences of tokens, so that indexOf / prefix tests are computed.       *)
(* Versions are parsed semver records, the string "invalid" (a version     *)
(* string semver rejects) or Null (no version).                            *)
(***************************************************************************)
EXTENDS Integers, Sequences, FiniteSets, TLC

----------------------------------------------------------------------------
(* Bounds of the model *)

\* the most candidate directories on disk during a discovery pass
MaxModules == 2

\* the largest major, minor and patch number of the versions compared
MaxVersionPart == 1

\* the most output chunks a spawned command writes
MaxChunks == 2

\* the most service operations called one after the other
MaxOps == 2

\* the most packages in a reply of the registry's search endpoint
MaxHits == 2

\* the most platform entries of the config the component is opened with
MaxPlatforms == 2

\* the most events (clicks, window messages) the component handles
MaxEvents == 3

----------------------------------------------------------------------------
(* Values *)

Undefined == "undefined"

\* configService.name, the console's own package
HbUi == <<"homebridge-", "config-ui-x">>
HbAlexa == <<"homebridge-", "alexa">>
MyHbUi == <<"my-", "homebridge-", "config-ui-x">>

\* packages known to the registry only, and one that is no plugin by name
HbNew == <<"homebridge-", "new">>
Lodash == <<"lodash">>

\* directory names found under the search paths
DirNames == {HbUi, HbAlexa, MyHbUi}

\* names a manifest may carry
ManifestNames == {HbUi, HbAlexa}

CustomPath == "/custom/node_modules"
GlobalPath == "/usr/lib/node_modules"

\* this.paths: the custom plugin path is unshifted in front of the others
Paths == <<CustomPath, GlobalPath>>

PathSet == {Paths[i] : i \in 1..Len(Paths)}

Slots == PathSet \X DirNames

\* a version string: one semver parses (kind "semver"), one it rejects
\* ("invalid"), or the JavaScript values null and undefined
V(ma, mi, pa, pre) ==
  [kind |-> "semver", major |-> ma, minor |-> mi, patch |-> pa, pre |-> pre]

NotAVersion(k) == [kind |-> k, major |-> 0, minor |-> 0, patch |-> 0, pre |-> <<>>]

NullV == NotAVersion("null")
UndefinedV == NotAVersion("undefined")
InvalidV == NotAVersion("invalid")

\* prerelease identifiers: numeric ones, and alphanumeric ones
NumId(n) == [num |-> TRUE, n |-> n, s |-> ""]
StrId(s) == [num |-> FALSE, n |-> 0, s |-> s]

\* the alphanumeric identifiers of the model, in ASCII order
AlphaIds == <<"alpha", "beta", "rc">>

V001 == V(0, 0, 1, <<>>)
V100 == V(1, 0, 0, <<>>)
V200 == V(2, 0, 0, <<>>)

\* pjson.keywords: absent, or a list of words
NoKeywords == [present |-> FALSE, words |-> {}]
Keywords(ws) == [present |-> TRUE, words |-> ws]

KeywordSets ==
  {NoKeywords, Keywords({"homebridge"}), Keywords({"homebridge-plugin", "homebridge"})}

\* what is at <path>/<dir>: nothing, a directory without package.json, or a
\* directory with a package.json of the given content
Entry(k, n, kw, v) == [kind |-> k, name |-> n, keywords |-> kw, version |-> v]

NoDir == Entry("no-dir", <<>>, NoKeywords, UndefinedV)
NoManifest == Entry("no-manifest", <<>>, NoKeywords, UndefinedV)

Manifests ==
  {Entry("manifest", n, kw, V100) : n \in ManifestNames, kw \in KeywordSets}

DirEntries == {NoDir, NoManifest} \cup Manifests

----------------------------------------------------------------------------
(* String helpers *)

\* String.prototype.indexOf for a token: 0-based position, -1 when absent
IndexOf(s, tok) ==
  IF \E i \in 1..Len(s) : s[i] = tok
    THEN (CHOOSE i \in 1..Len(s) : s[i] = tok /\ \A j \in 1..(i - 1) : s[j] # tok) - 1
    ELSE -1

\* s.indexOf(prefix) === 0 for a prefix of several tokens
StartsWith(s, prefix) ==
  /\ Len(s) >= Len(prefix)
  /\ SubSeq(s, 1, Len(prefix)) = prefix

----------------------------------------------------------------------------
(* semver *)

AlphaRank(s) == CHOOSE i \in 1..Len(AlphaIds) : AlphaIds[i] = s

\* semver compareIdentifiers: numeric identifiers sort below alphanumeric
\* ones, numerically among themselves; the others in ASCII order
CompareIdentifiers(a, b) ==
  IF a.num /\ b.num
    THEN (IF a.n = b.n THEN 0 ELSE IF a.n < b.n THEN -1 ELSE 1)
    ELSE IF a.num /\ ~b.num THEN -1
    ELSE IF b.num /\ ~a.num THEN 1
    ELSE IF AlphaRank(a.s) = AlphaRank(b.s) THEN 0
    ELSE IF AlphaRank(a.s) < AlphaRank(b.s) THEN -1 ELSE 1

\* SemVer.compareMain
CompareMain(a, b) ==
  IF a.major # b.major THEN (IF a.major < b.major THEN -1 ELSE 1)
  ELSE IF a.minor # b.minor THEN (IF a.minor < b.minor THEN -1 ELSE 1)
  ELSE IF a.patch # b.patch THEN (IF a.patch < b.patch THEN -1 ELSE 1)
  ELSE 0

RECURSIVE ComparePreFrom(_, _, _)
ComparePreFrom(p, q, i) ==
  IF i > Len(p) /\ i > Len(q) THEN 0
  ELSE IF i > Len(q) THEN 1
  ELSE IF i > Len(p) THEN -1
  ELSE IF p[i] = q[i] THEN ComparePreFrom(p, q, i + 1)
  ELSE CompareIdentifiers(p[i], q[i])

\* SemVer.comparePre: a prerelease sorts below its release
ComparePre(a, b) ==
  IF Len(a.pre) > 0 /\ Len(b.pre) = 0 THEN -1
  ELSE IF Len(a.pre) = 0 /\ Len(b.pre) > 0 THEN 1
  ELSE IF Len(a.pre) = 0 /\ Len(b.pre) = 0 THEN 0
  ELSE ComparePreFrom(a.pre, b.pre, 1)

\* new SemVer(v) throws TypeError for anything but a valid version string
SemVerThrows(v) == v.kind # "semver"

SemverCompare(a, b) ==
  IF CompareMain(a, b) # 0 THEN CompareMain(a, b) ELSE ComparePre(a, b)

\* a comparison that also accepts equal versions
SemverLtOrEqual(a, b) == SemverCompare(a, b) <= 0

\* semver.lt(a, b), for versions that parse
SemverLt(a, b) == SemverCompare(a, b) < 0

----------------------------------------------------------------------------
(* State *)

VARIABLES
  disk,              \* the search paths' directories: Slots -> DirEntries
  schemaFiles,       \* <<path, name>> with a config.schema.json
  customPluginPath,  \* configService.customPluginPath, or Undefined
  pass,              \* getInstalledPlugins: "idle" (called), "running", "returned"
  pcs,               \* where each candidate's async callback stands
  local,             \* each callback's plugin record in the making
  got,               \* history: the registry reply each callback received
  plugins,           \* the pass's local array `plugins`
  installedPlugins,  \* the installed plugin cache (this.installedPlugins)
  returned,          \* what the last getInstalledPlugins returned
  enrichPc,          \* one parsePackageJson call: "off", "call", "npm", "done"
  enrichIn,          \* its arguments: the manifest and the install path
  enrichOut,         \* the plugin record it builds
  enrichGot,         \* the registry reply it received
  uiSudo,            \* configService.ui.sudo
  cwdWritable,       \* whether fs.access(cwd, W_OK) succeeds
  nodeOk,            \* whether process.version satisfies minimumNodeVersion
  runPc,             \* runNpmCommand: "off", "called", "probe", "running",
                     \* "resolved", "rejected"
  command,           \* its `command` array
  probed,            \* history: fs.access was called
  sink,              \* what client.emit('stdout', ...) sent, in order
  spawned,           \* the file and arguments given to pty.spawn
  proc,              \* the spawned process: "none", "running", "exited"
  dies,              \* whether SIGTERM ends the process
  written,           \* history: the chunks the process wrote
  ptyBuf,            \* chunks written and not yet emitted as 'data'
  exitCode,          \* the code of the 'exit' event, -1 before
  timer,             \* timeoutTimer: "unset", "armed", "fired", "cleared"
  sigterm,           \* SIGTERM was sent to the running process
  runError,          \* the rejection's reason
  uiPort,            \* configService.ui.port
  svcPc,             \* the service operation in progress: "off", "idle",
                     \* "discover", "search", "single", "schema", "done"
  svcOp,             \* the operation called and its argument
  svcResult,         \* what the operation returned or threw
  svcHits,           \* history: plugin-named results of the keyword search
  svcLookups,        \* history: exact-name lookups made by the operation
  opsDone,           \* operations called so far
  customDir,         \* the custom plugin directory exists
  target,            \* the operation's local `installPath`
  cmdRan,            \* history: how the operation's npm command ended
  uninstalled,       \* history: names whose uninstall command succeeded
  inited,            \* ngOnInit has run
  platforms,         \* homebridgeConfig.platforms
  pluginConfig,      \* this.pluginConfig
  linkType,          \* this.linkType
  popup,             \* the link account popup is open
  originCheckInterval, \* the origin-check interval is set
  justLinked,        \* this.justLinked
  posts,             \* configs posted to /config-editor, not yet answered
  nextOid,           \* the identity of the next object literal
  events,            \* events handled so far
  listening,         \* the component's message listener is registered
  errors             \* history: calls of console.error

discVars ==
  <<disk, schemaFiles, customPluginPath, pass, pcs, local, got, plugins,
    installedPlugins, returned>>

enrichVars == <<enrichPc, enrichIn, enrichOut, enrichGot>>

runVars ==
  <<uiSudo, cwdWritable, nodeOk, runPc, command, probed, sink, spawned, proc,
    dies, written, ptyBuf, exitCode, timer, sigterm, runError>>

svcVars == <<uiPort, svcPc, svcOp, svcResult, svcHits, svcLookups, opsDone>>

lifeVars == <<customDir, target, cmdRan, uninstalled>>

gshVars == <<inited, platforms, pluginConfig, linkType, popup, originCheckInterval,
             justLinked, posts, nextOid, events, listening, errors>>

vars == <<discVars, enrichVars, runVars, gshVars, svcVars, lifeVars>>

\* what the steps of discovery, of an enrichment and of the runner leave alone
notDisc == <<enrichVars, runVars, gshVars, svcVars, lifeVars>>
notEnrich == <<discVars, runVars, svcVars, lifeVars, gshVars>>
notRun == <<discVars, enrichVars, svcVars, lifeVars, gshVars>>

\* an optional list: this.installedPlugins is undefined until a pass ends
NoList == [defined |-> FALSE, list |-> <<>>]
SomeList(l) == [defined |-> TRUE, list |-> l]

----------------------------------------------------------------------------
(* Plugin records *)

\* the HomebridgePlugin fields of the model; `def` lists the properties that
\* are set on the object, `dir` remembers the candidate directory the record
\* was parsed from (history, not a property of the object)
EmptyPlugin ==
  [name |-> <<>>, certifiedPlugin |-> FALSE, installedVersion |-> UndefinedV,
   globalInstall |-> FALSE, settingsSchema |-> FALSE, installPath |-> Undefined,
   publicPackage |-> FALSE, latestVersion |-> UndefinedV,
   updateAvailable |-> FALSE, def |-> {}, dir |-> <<>>]

CertifiedPrefix == <<"@homebridge/", "homebridge-">>

Truthy(path) == path # Undefined /\ path # ""

\* parsePackageJson, up to the call of getPluginFromNpm
ParsePackageJson(pjson, installPath, custom, schemas, dir) ==
  [EmptyPlugin EXCEPT
     !.name = pjson.name,
     !.certifiedPlugin = StartsWith(pjson.name, CertifiedPrefix),
     !.installedVersion =
        IF Truthy(installPath)
          THEN (IF pjson.version.kind = "undefined" THEN V001 ELSE pjson.version)
          ELSE NullV,
     !.globalInstall = (installPath # custom),
     !.settingsSchema = (<<installPath, pjson.name>> \in schemas),
     !.installPath = installPath,
     !.def = {"name", "certifiedPlugin", "installedVersion", "globalInstall",
              "settingsSchema", "installPath"},
     !.dir = dir]

\* a reply of the registry's get-by-name endpoint: status 200 with the
\* package document, 404, or 0 for a request that failed (timeout, network)
Reply(st, n, latest, kw, pkg) ==
  [status |-> st, name |-> n, latest |-> latest, keywords |-> kw,
   hasPackage |-> pkg]

\* no reply received (yet)
NoReply == Reply(-1, <<>>, UndefinedV, NoKeywords, FALSE)

\* the try block of getPluginFromNpm throws: the request failed, or semver.lt
\* rejected one of the versions
NpmThrows(plugin, resp) ==
  \/ resp.status # 200
  \/ SemVerThrows(plugin.installedVersion)
  \/ SemVerThrows(resp.latest)

NpmDef == {"publicPackage", "latestVersion", "updateAvailable", "links"}

\* the catch block of getPluginFromNpm
NpmFailed(plugin) ==
  [plugin EXCEPT !.publicPackage = FALSE, !.latestVersion = NullV,
                 !.updateAvailable = FALSE, !.def = @ \cup NpmDef]

\* getPluginFromNpm
GetPluginFromNpm(plugin, resp) ==
  IF NpmThrows(plugin, resp)
    THEN NpmFailed(plugin)
    ELSE [plugin EXCEPT
            !.publicPackage = TRUE,
            !.latestVersion = resp.latest,
            !.updateAvailable = SemverLt(plugin.installedVersion, resp.latest),
            !.def = @ \cup NpmDef \cup {"author"}]

----------------------------------------------------------------------------
(* Plugin discovery: getInstalledPlugins *)

\* getInstalledModules: every directory under every search path
InstalledModules(d) == {c \in Slots : d[c].kind # "no-dir"}

\* module.name.indexOf('homebridge-') === 0
NameFilter(c) == IndexOf(c[2], "homebridge-") = 0

\* the second filter's predicate is an async function: filter sees the
\* promise it returns, which is truthy whether or not package.json exists
PathExistsFilter(d, c) == TRUE

HomebridgePlugins(d) ==
  {c \in InstalledModules(d) : NameFilter(c) /\ PathExistsFilter(d, c)}

\* a keyword check that only asks for a keyword list
KeywordsPresentOnly(pjson) == pjson.keywords.present

\* pjson.keywords && pjson.keywords.includes('homebridge-plugin')
HasPluginKeyword(pjson) ==
  pjson.keywords.present /\ "homebridge-plugin" \in pjson.keywords.words

\* plugins.find(x => plugin.name === x.name)
FindName(list, n) == \E i \in 1..Len(list) : list[i].name = n

\* plugins.find(x => plugin.name === x.name && x.globalInstall === true)
FindGlobal(list, n) ==
  \E i \in 1..Len(list) : list[i].name = n /\ list[i].globalInstall = TRUE

\* plugins.findIndex(x => plugin.name === x.name && x.globalInstall === true)
FindGlobalIndex(list, n) ==
  CHOOSE i \in 1..Len(list) :
    /\ list[i].name = n /\ list[i].globalInstall = TRUE
    /\ \A j \in 1..(i - 1) : ~(list[j].name = n /\ list[j].globalInstall = TRUE)

\* a deduplication that keeps whichever record of a name arrived first
DedupeFirstWins(list, plugin) ==
  IF ~FindName(list, plugin.name) THEN Append(list, plugin) ELSE list

\* filter out duplicate plugins and give preference to non-global plugins
Dedupe(list, plugin) ==
  IF ~FindName(list, plugin.name)
    THEN Append(list, plugin)
    ELSE IF ~plugin.globalInstall /\ FindGlobal(list, plugin.name)
      THEN [list EXCEPT ![FindGlobalIndex(list, plugin.name)] = plugin]
      ELSE list

\* JavaScript string order of the package names of the model
NameOrder == <<HbAlexa, HbUi, HbNew, Lodash, MyHbUi>>

NameRank(n) == CHOOSE i \in 1..Len(NameOrder) : NameOrder[i] = n

\* compareMultiple for ['updateAvailable', 'name'], ['desc', 'asc']
ComparePlugins(a, b) ==
  IF a.updateAvailable # b.updateAvailable
    THEN (IF a.updateAvailable THEN -1 ELSE 1)
    ELSE IF NameRank(a.name) = NameRank(b.name) THEN 0
    ELSE IF NameRank(a.name) < NameRank(b.name) THEN -1 ELSE 1

RECURSIVE InsertSorted(_, _)
InsertSorted(sorted, x) ==
  IF sorted = <<>> THEN <<x>>
  ELSE IF ComparePlugins(x, sorted[Len(sorted)]) >= 0 THEN Append(sorted, x)
  ELSE Append(InsertSorted(SubSeq(sorted, 1, Len(sorted) - 1), x), sorted[Len(sorted)])

RECURSIVE SortFrom(_, _, _)
SortFrom(list, i, acc) ==
  IF i > Len(list) THEN acc ELSE SortFrom(list, i + 1, InsertSorted(acc, list[i]))

\* the list in the order in which the callbacks pushed their records
OrderByPushOrder(list) == list

\* _.orderBy(plugins, ['updateAvailable', 'name'], ['desc', 'asc']): stable
OrderBy(list) == SortFrom(list, 1, <<>>)

Pending == {"readJson", "npm", "commit"}

\* getInstalledPlugins up to the fan-out: every surviving candidate's
\* callback runs to its first await (fs.readJson)
StartPass ==
  /\ pass = "idle"
  \* fs.readdir of every path of this.paths resolves
  /\ customPluginPath # Undefined => customDir
  /\ pass' = "running"
  /\ plugins' = <<>>
  /\ pcs' = [c \in Slots |->
               IF c \in HomebridgePlugins(disk) THEN "readJson"
               ELSE IF c \in InstalledModules(disk) THEN "filtered" ELSE "none"]
  /\ local' = [c \in Slots |-> EmptyPlugin]
  /\ got' = [c \in Slots |-> NoReply]
  /\ UNCHANGED <<disk, schemaFiles, customPluginPath, installedPlugins, returned>>
  /\ UNCHANGED notDisc

\* fs.readJson resolves or rejects; the keyword check; parsePackageJson up to
\* the registry request
ReadJson(c) ==
  /\ pass = "running"
  /\ pcs[c] = "readJson"
  /\ IF disk[c].kind # "manifest"
       THEN pcs' = [pcs EXCEPT ![c] = "threw"] /\ UNCHANGED local
       ELSE IF ~HasPluginKeyword(disk[c])
         THEN pcs' = [pcs EXCEPT ![c] = "skipped"] /\ UNCHANGED local
         ELSE /\ pcs' = [pcs EXCEPT ![c] = "npm"]
              /\ local' = [local EXCEPT ![c] =
                   ParsePackageJson(disk[c], c[1], customPluginPath, schemaFiles, c[2])]
  /\ UNCHANGED <<disk, schemaFiles, customPluginPath, pass, got, plugins,
                 installedPlugins, returned>>
  /\ UNCHANGED notDisc

\* a getPluginFromNpm without its catch: the failure reaches the callback's
\* own catch in getInstalledPlugins and the candidate is dropped
NpmResponseRethrows(c, resp) ==
  /\ pass = "running"
  /\ pcs[c] = "npm"
  /\ pcs' = [pcs EXCEPT ![c] = IF NpmThrows(local[c], resp) THEN "threw" ELSE "commit"]
  /\ local' = [local EXCEPT ![c] = GetPluginFromNpm(local[c], resp)]
  /\ got' = [got EXCEPT ![c] = resp]
  /\ UNCHANGED <<disk, schemaFiles, customPluginPath, pass, plugins,
                 installedPlugins, returned>>
  /\ UNCHANGED notDisc

\* the registry request of getPluginFromNpm settles
NpmResponse(c, resp) ==
  /\ pass = "running"
  /\ pcs[c] = "npm"
  /\ pcs' = [pcs EXCEPT ![c] = "commit"]
  /\ local' = [local EXCEPT ![c] = GetPluginFromNpm(local[c], resp)]
  /\ got' = [got EXCEPT ![c] = resp]
  /\ UNCHANGED <<disk, schemaFiles, customPluginPath, pass, plugins,
                 installedPlugins, returned>>
  /\ UNCHANGED notDisc

\* the callback resumes after `await this.parsePackageJson(...)`
Commit(c) ==
  /\ pass = "running"
  /\ pcs[c] = "commit"
  /\ pcs' = [pcs EXCEPT ![c] = "done"]
  /\ plugins' = Dedupe(plugins, local[c])
  /\ UNCHANGED <<disk, schemaFiles, customPluginPath, pass, local, got,
                 installedPlugins, returned>>
  /\ UNCHANGED notDisc

\* Promise.all resolves: cache the array, return it ordered
FinishPass ==
  /\ pass = "running"
  /\ \A c \in Slots : pcs[c] \notin Pending
  /\ pass' = "returned"
  /\ installedPlugins' = SomeList(plugins)
  /\ returned' = SomeList(OrderBy(plugins))
  /\ UNCHANGED <<disk, schemaFiles, customPluginPath, pcs, local, got, plugins>>
  /\ UNCHANGED notDisc

\* the registry's replies to getPluginFromNpm during discovery
DiscoveryReplies ==
  {Reply(200, <<>>, v, NoKeywords, FALSE) : v \in {V100, V200}}
    \cup {Reply(404, <<>>, UndefinedV, NoKeywords, FALSE),
          Reply(0, <<>>, UndefinedV, NoKeywords, FALSE)}

Disks ==
  {d \in [Slots -> DirEntries] : Cardinality(InstalledModules(d)) <= MaxModules}

DiscInit ==
  /\ disk \in Disks
  /\ schemaFiles = {}
  /\ customPluginPath \in {CustomPath, Undefined}
  /\ pass = "idle"
  /\ pcs = [c \in Slots |-> "none"]
  /\ local = [c \in Slots |-> EmptyPlugin]
  /\ got = [c \in Slots |-> NoReply]
  /\ plugins = <<>>
  /\ installedPlugins = NoList
  /\ returned = NoList

DiscNext ==
  \/ StartPass
  \/ \E c \in Slots : ReadJson(c)
  \/ \E c \in Slots, resp \in DiscoveryReplies : NpmResponse(c, resp)
  \/ \E c \in Slots : Commit(c)
  \/ FinishPass

\* no discovery in progress, nothing on disk
DiscOff ==
  /\ disk = [c \in Slots |-> NoDir]
  /\ schemaFiles = {}
  /\ customPluginPath = CustomPath
  /\ pass = "off"
  /\ pcs = [c \in Slots |-> "none"]
  /\ local = [c \in Slots |-> EmptyPlugin]
  /\ got = [c \in Slots |-> NoReply]
  /\ plugins = <<>>
  /\ installedPlugins = NoList
  /\ returned = NoList

----------------------------------------------------------------------------
(* One call of parsePackageJson / getPluginFromNpm on arbitrary arguments *)

PreReleases ==
  {<<>>, <<StrId("alpha")>>, <<StrId("beta")>>, <<StrId("beta"), NumId(1)>>, <<NumId(1)>>}

EnrichVersions ==
  {V(ma, mi, pa, pre) : ma \in 0..MaxVersionPart, mi \in 0..MaxVersionPart,
                        pa \in 0..MaxVersionPart, pre \in PreReleases}

\* pjson.version: a version, a string semver rejects, or absent
EnrichManifests ==
  {Entry("manifest", HbUi, Keywords({"homebridge-plugin"}), v) :
     v \in EnrichVersions \cup {InvalidV, UndefinedV}}

\* the registry's replies: dist-tags.latest may be any version, a string
\* semver rejects, or missing
EnrichReplies ==
  {Reply(200, HbUi, v, NoKeywords, FALSE) : v \in EnrichVersions \cup {InvalidV, UndefinedV}}
    \cup {Reply(404, <<>>, UndefinedV, NoKeywords, FALSE),
          Reply(0, <<>>, UndefinedV, NoKeywords, FALSE)}

EnrichOff ==
  /\ enrichPc = "off"
  /\ enrichIn = [pjson |-> NoDir, installPath |-> Undefined]
  /\ enrichOut = EmptyPlugin
  /\ enrichGot = NoReply

EnrichInit ==
  /\ enrichPc = "call"
  /\ enrichIn \in [pjson : EnrichManifests, installPath : {"", GlobalPath}]
  /\ enrichOut = EmptyPlugin
  /\ enrichGot = NoReply

\* parsePackageJson builds the record and calls getPluginFromNpm
EnrichParse ==
  /\ enrichPc = "call"
  /\ enrichPc' = "npm"
  /\ enrichOut' = ParsePackageJson(enrichIn.pjson, enrichIn.installPath,
                                   customPluginPath, schemaFiles, HbUi)
  /\ UNCHANGED <<enrichIn, enrichGot>>
  /\ UNCHANGED notEnrich

\* the registry request settles and getPluginFromNpm returns
EnrichReply(resp) ==
  /\ enrichPc = "npm"
  /\ enrichPc' = "done"
  /\ enrichOut' = GetPluginFromNpm(enrichOut, resp)
  /\ enrichGot' = resp
  /\ UNCHANGED enrichIn
  /\ UNCHANGED notEnrich

EnrichNext ==
  \/ EnrichParse
  \/ \E resp \in EnrichReplies : EnrichReply(resp)

----------------------------------------------------------------------------
(* The command runner: runNpmCommand *)

\* a message on the sink: `from` tells the runner's own lines from the
\* process's output (history, the client sees the text only)
Msg(from, text) == [from |-> from, text |-> text]

Chunks == {"out-a", "out-b"}

ExitCodes == {0, 1}

NotSpawned == [file |-> "", args |-> <<>>]

\* the command arrays the callers build; the '' stands for an empty element
\* such as an unset install option
RunCommands ==
  {<<"npm", "--no-update-notifier", "install", "--unsafe-perm", "--save", "pkg@latest">>,
   <<"npm", "--no-update-notifier", "uninstall", "--unsafe-perm", "", "pkg">>}

RECURSIVE FilterNonEmpty(_)
\* command.filter(x => x.length)
FilterNonEmpty(cmd) ==
  IF cmd = <<>> THEN <<>>
  ELSE IF Head(cmd) = "" THEN FilterNonEmpty(Tail(cmd))
  ELSE <<Head(cmd)>> \o FilterNonEmpty(Tail(cmd))

\* command.unshift('sudo', '-E', '-n')
SudoPrefix == <<"sudo", "-E", "-n">>

\* the lines emitted when the write-access probe fails
AccessWarning ==
  <<Msg("runner", "warn: no write access to the target directory"),
    Msg("runner", "cwd"),
    Msg("runner", "warn: this may cause the operation to fail"),
    Msg("runner", "warn: see the docs for how to enable sudo mode"),
    Msg("runner", "warn: sudo-mode url")>>

NodeWarning ==
  <<Msg("runner", "warn: newer Node.js required"),
    Msg("runner", "warn: you may experience issues")>>

Diagnostics ==
  <<Msg("runner", "USER"), Msg("runner", "DIR"), Msg("runner", "CMD")>>

SuccessMsg == Msg("runner", "Command succeeded!.")

CommandFailed == "Command failed. Please review log for details."

\* from the log line to the end of the promise executor: the diagnostics,
\* pty.spawn(command.shift(), command, ...), the two handlers, the timer
EmitAndSpawn(cmd, before) ==
  /\ sink' = before \o (IF nodeOk THEN <<>> ELSE NodeWarning) \o Diagnostics
  /\ spawned' = [file |-> Head(cmd), args |-> Tail(cmd)]
  /\ command' = Tail(cmd)
  /\ proc' = "running"
  /\ dies' \in BOOLEAN
  /\ timer' = "armed"
  /\ runPc' = "running"

\* runNpmCommand up to its first await: in sudo mode that is the promise of
\* the spawned command, otherwise the write-access probe
RunStart ==
  /\ runPc = "called"
  /\ IF uiSudo
       THEN /\ EmitAndSpawn(SudoPrefix \o FilterNonEmpty(command), sink)
            /\ UNCHANGED probed
       ELSE /\ command' = FilterNonEmpty(command)
            /\ probed' = TRUE
            /\ runPc' = "probe"
            /\ UNCHANGED <<sink, spawned, proc, dies, timer>>
  /\ UNCHANGED <<uiSudo, cwdWritable, nodeOk, written, ptyBuf, exitCode,
                 sigterm, runError>>
  /\ UNCHANGED notRun

\* a probe whose failure fails the operation
AccessSettlesStrict ==
  /\ runPc = "probe"
  /\ IF cwdWritable
       THEN EmitAndSpawn(command, sink) /\ UNCHANGED runError
       ELSE /\ runPc' = "rejected"
            /\ runError' = "no write access"
            /\ UNCHANGED <<sink, spawned, command, proc, dies, timer>>
  /\ UNCHANGED <<uiSudo, cwdWritable, nodeOk, probed, written, ptyBuf,
                 exitCode, sigterm>>
  /\ UNCHANGED notRun

\* fs.access settles; a failure is caught and answered with a warning
AccessSettles ==
  /\ runPc = "probe"
  /\ EmitAndSpawn(command, sink \o (IF cwdWritable THEN <<>> ELSE AccessWarning))
  /\ UNCHANGED <<uiSudo, cwdWritable, nodeOk, probed, written, ptyBuf,
                 exitCode, sigterm, runError>>
  /\ UNCHANGED notRun

\* the process writes a chunk to the pseudo-terminal
ProcWrite(ch) ==
  /\ proc = "running"
  /\ Len(written) < MaxChunks
  /\ written' = Append(written, ch)
  /\ ptyBuf' = Append(ptyBuf, ch)
  /\ UNCHANGED <<uiSudo, cwdWritable, nodeOk, runPc, command, probed, sink,
                 spawned, proc, dies, exitCode, timer, sigterm, runError>>
  /\ UNCHANGED notRun

\* term.on('data'): the chunk goes to the client as it is
DataEvent ==
  /\ runPc = "running"
  /\ ptyBuf # <<>>
  /\ sink' = Append(sink, Msg("term", Head(ptyBuf)))
  /\ ptyBuf' = Tail(ptyBuf)
  /\ UNCHANGED <<uiSudo, cwdWritable, nodeOk, runPc, command, probed, spawned,
                 proc, dies, written, exitCode, timer, sigterm, runError>>
  /\ UNCHANGED notRun

\* the process exits by itself
ProcExit(code) ==
  /\ proc = "running"
  /\ proc' = "exited"
  /\ exitCode' = code
  /\ UNCHANGED <<uiSudo, cwdWritable, nodeOk, runPc, command, probed, sink,
                 spawned, dies, written, ptyBuf, timer, sigterm, runError>>
  /\ UNCHANGED notRun

\* the process is ended by the SIGTERM it was sent; which code the 'exit'
\* event then carries is the pseudo-terminal library's choice
ProcKilled(code) ==
  /\ proc = "running"
  /\ sigterm
  /\ dies
  /\ proc' = "exited"
  /\ exitCode' = code
  /\ UNCHANGED <<uiSudo, cwdWritable, nodeOk, runPc, command, probed, sink,
                 spawned, dies, written, ptyBuf, timer, sigterm, runError>>
  /\ UNCHANGED notRun

\* the 5 minute timer fires: term.kill('SIGTERM'), which signals the
\* process if there still is one
TimerFires ==
  /\ timer = "armed"
  /\ timer' = "fired"
  /\ sigterm' = (sigterm \/ proc = "running")
  /\ UNCHANGED <<uiSudo, cwdWritable, nodeOk, runPc, command, probed, sink,
                 spawned, proc, dies, written, ptyBuf, exitCode, runError>>
  /\ UNCHANGED notRun

\* an exit handler that reports success whatever the code
ExitEventAlwaysSucceeds ==
  /\ runPc = "running"
  /\ proc = "exited"
  /\ ptyBuf = <<>>
  /\ timer' = (IF timer = "armed" THEN "cleared" ELSE timer)
  /\ sink' = Append(sink, SuccessMsg)
  /\ runPc' = "resolved"
  /\ UNCHANGED <<uiSudo, cwdWritable, nodeOk, command, probed, spawned, proc,
                 dies, written, ptyBuf, exitCode, sigterm, runError>>
  /\ UNCHANGED notRun

\* term.on('exit'): the pseudo-terminal emits it once the output is drained
ExitEvent ==
  /\ runPc = "running"
  /\ proc = "exited"
  /\ ptyBuf = <<>>
  /\ timer' = (IF timer = "armed" THEN "cleared" ELSE timer)
  /\ IF exitCode = 0
       THEN /\ sink' = Append(sink, SuccessMsg)
            /\ runPc' = "resolved"
            /\ UNCHANGED runError
       ELSE /\ runPc' = "rejected"
            /\ runError' = CommandFailed
            /\ UNCHANGED sink
  /\ UNCHANGED <<uiSudo, cwdWritable, nodeOk, command, probed, spawned, proc,
                 dies, written, ptyBuf, exitCode, sigterm>>
  /\ UNCHANGED notRun

RunInit ==
  /\ uiSudo \in BOOLEAN
  /\ cwdWritable \in BOOLEAN
  /\ nodeOk \in BOOLEAN
  /\ runPc = "called"
  /\ command \in RunCommands
  /\ probed = FALSE
  /\ sink = <<>>
  /\ spawned = NotSpawned
  /\ proc = "none"
  /\ dies = TRUE
  /\ written = <<>>
  /\ ptyBuf = <<>>
  /\ exitCode = -1
  /\ timer = "unset"
  /\ sigterm = FALSE
  /\ runError = ""

RunOff ==
  /\ uiSudo = FALSE
  /\ cwdWritable = TRUE
  /\ nodeOk = TRUE
  /\ runPc = "off"
  /\ command = <<>>
  /\ probed = FALSE
  /\ sink = <<>>
  /\ spawned = NotSpawned
  /\ proc = "none"
  /\ dies = TRUE
  /\ written = <<>>
  /\ ptyBuf = <<>>
  /\ exitCode = -1
  /\ timer = "unset"
  /\ sigterm = FALSE
  /\ runError = ""

RunNext ==
  \/ RunStart
  \/ AccessSettles
  \/ \E ch \in Chunks : ProcWrite(ch)
  \/ DataEvent
  \/ \E code \in ExitCodes : ProcExit(code)
  \/ \E code \in ExitCodes : ProcKilled(code)
  \/ TimerFires
  \/ ExitEvent

----------------------------------------------------------------------------
(* Operations on the installed plugin cache: searchNpmRegistry,            *)
(* searchNpmRegistrySingle, getPluginConfigSchema                          *)

Op(n, arg) == [name |-> n, arg |-> arg]

Result(k, l, port, pin) == [kind |-> k, list |-> l, port |-> port, pin |-> pin]

NoResult == Result("none", <<>>, 0, "")
ListResult(l) == Result("list", l, 0, "")
\* NotFoundException
NotFound == Result("NotFound", <<>>, 0, "")
\* the rejection of a registry request, passed on to the caller
RequestError == Result("error", <<>>, 0, "")

\* the queries of the model: two full plugin names, a word, the empty string
Queries == {HbNew, HbUi, <<"alexa">>, <<>>}

SchemaNames == {HbUi, HbAlexa, HbNew}

UiPorts == {8080, 8581}

BridgePin == "031-45-154"

\* the content of a config.schema.json: the defaults of its port and pin
SchemaFile == [port |-> 8080, pin |-> "000-00-000"]

\* the objects of a search reply: package.name and package.version
SearchPackages == {[name |-> n, version |-> V200] : n \in {HbUi, HbAlexa, HbNew, Lodash}}

RECURSIVE SeqsUpTo(_, _)
SeqsUpTo(S, n) ==
  IF n = 0 THEN {<<>>}
  ELSE SeqsUpTo(S, n - 1) \cup
       {Append(q, x) : q \in {r \in SeqsUpTo(S, n - 1) : Len(r) = n - 1}, x \in S}

\* the search endpoint lists a package once
SearchReplies ==
  {q \in SeqsUpTo(SearchPackages, MaxHits) :
     \A i, j \in 1..Len(q) : q[i].name = q[j].name => i = j}

\* the replies of the get-by-name endpoint: the document of a package,
\* which may or may not carry the plugin keyword and may or may not have a
\* `package` property, or a failure (404, or 0 for no answer)
SingleReplies ==
  {Reply(200, q, V200, kw, hp) :
     q \in {HbNew, HbUi},
     kw \in {NoKeywords, Keywords({"homebridge-plugin", "homebridge"})},
     hp \in BOOLEAN}
    \cup {Reply(404, <<>>, UndefinedV, NoKeywords, FALSE),
          Reply(0, <<>>, UndefinedV, NoKeywords, FALSE)}

\* this.installedPlugins.find(x => x.name === name)
FindInstalled(list, n) ==
  list[CHOOSE i \in 1..Len(list) :
         list[i].name = n /\ \A j \in 1..(i - 1) : list[j].name # n]

\* a record built from the search data whether or not the plugin is installed
SearchRecordFromRegistry(pkg, installed) ==
  [EmptyPlugin EXCEPT
     !.name = pkg.name,
     !.publicPackage = TRUE,
     !.installedVersion = NullV,
     !.latestVersion = pkg.version,
     !.certifiedPlugin = StartsWith(pkg.name, CertifiedPrefix),
     !.def = {"name", "publicPackage", "installedVersion", "latestVersion",
              "lastUpdated", "description", "links", "author", "certifiedPlugin"}]

\* the map callback of searchNpmRegistry
SearchRecord(pkg, installed) ==
  IF FindName(installed, pkg.name)
    THEN FindInstalled(installed, pkg.name)
    ELSE [EmptyPlugin EXCEPT
            !.name = pkg.name,
            !.publicPackage = TRUE,
            !.installedVersion = NullV,
            !.latestVersion = pkg.version,
            !.certifiedPlugin = StartsWith(pkg.name, CertifiedPrefix),
            !.def = {"name", "publicPackage", "installedVersion", "latestVersion",
                     "lastUpdated", "description", "links", "author",
                     "certifiedPlugin"}]

\* searchResults.objects.filter(name starts with 'homebridge-').map(...)
SearchResult(objects, installed) ==
  LET Named(o) == IndexOf(o.name, "homebridge-") = 0
      kept == SelectSeq(objects, Named)
  IN [i \in 1..Len(kept) |-> SearchRecord(kept[i], installed)]

\* a fallback for every empty result
NeedsFallbackAnyQuery(result, query) == Len(result) = 0

\* !result.length && query.indexOf('homebridge-') === 0
NeedsFallback(result, query) ==
  Len(result) = 0 /\ IndexOf(query, "homebridge-") = 0

\* searchNpmRegistrySingle, given the reply to its request
SearchSingle(resp, installed) ==
  IF resp.status # 200 THEN <<>>
  ELSE IF ~HasPluginKeyword(resp) THEN <<>>
  ELSE IF FindName(installed, resp.name) THEN <<FindInstalled(installed, resp.name)>>
  \* plugin.lastUpdated = pkg.package.date throws when the document has no
  \* `package` property; the catch logs and returns []
  ELSE IF ~resp.hasPackage THEN <<>>
  ELSE <<[EmptyPlugin EXCEPT
            !.name = resp.name,
            !.certifiedPlugin = StartsWith(resp.name, CertifiedPrefix),
            !.publicPackage = TRUE,
            !.latestVersion = resp.latest,
            !.updateAvailable = FALSE,
            !.def = {"name", "description", "certifiedPlugin", "publicPackage",
                     "latestVersion", "lastUpdated", "updateAvailable", "links",
                     "author"}]>>

\* a schema returned as it is read
SchemaAsRead(pluginName, port) == Result("schema", <<>>, SchemaFile.port, SchemaFile.pin)

\* the schema read from the file, with the two defaults set
SchemaFor(pluginName, port) ==
  Result("schema", <<>>,
         IF pluginName = HbUi THEN port ELSE SchemaFile.port,
         IF pluginName = HbAlexa THEN BridgePin ELSE SchemaFile.pin)

discFrame == <<disk, schemaFiles, customPluginPath, pcs, local, got, plugins,
               installedPlugins, returned>>

\* searchNpmRegistry(query) up to its first await
SearchCall(q) ==
  /\ svcPc = "idle"
  /\ opsDone < MaxOps
  /\ opsDone' = opsDone + 1
  /\ svcOp' = Op("search", q)
  /\ svcResult' = NoResult
  /\ svcHits' = -1
  /\ svcLookups' = 0
  /\ IF ~installedPlugins.defined
       THEN svcPc' = "discover" /\ pass' = "idle"
       ELSE svcPc' = "search" /\ UNCHANGED pass
  /\ UNCHANGED <<discFrame, uiPort, enrichVars, runVars, gshVars, lifeVars>>

\* getPluginConfigSchema from the find to its next await
SchemaFind(pluginName) ==
  IF ~FindName(installedPlugins.list, pluginName)
    THEN svcPc' = "done" /\ svcResult' = NotFound
    ELSE svcPc' = "schema" /\ svcResult' = NoResult

\* getPluginConfigSchema(pluginName) up to its first await
SchemaCall(n) ==
  /\ svcPc = "idle"
  /\ opsDone < MaxOps
  /\ opsDone' = opsDone + 1
  /\ svcOp' = Op("schema", n)
  /\ svcHits' = -1
  /\ svcLookups' = 0
  /\ IF ~installedPlugins.defined
       THEN svcPc' = "discover" /\ pass' = "idle" /\ svcResult' = NoResult
       ELSE SchemaFind(n) /\ UNCHANGED pass
  /\ UNCHANGED <<discFrame, uiPort, enrichVars, runVars, gshVars, lifeVars>>

\* `await this.getInstalledPlugins()` returns to the operation
Discovered ==
  /\ svcPc = "discover"
  /\ svcOp.name \in {"search", "schema"}
  /\ pass = "returned"
  /\ pass' = "off"
  /\ IF svcOp.name = "search"
       THEN svcPc' = "search" /\ UNCHANGED svcResult
       ELSE SchemaFind(svcOp.arg)
  /\ UNCHANGED <<discFrame, uiPort, svcOp, svcHits, svcLookups, opsDone,
                 enrichVars, runVars, gshVars, lifeVars>>

\* the search request is rejected: searchNpmRegistry rejects with it
SearchFails ==
  /\ svcPc = "search"
  /\ svcPc' = "done"
  /\ svcResult' = RequestError
  /\ UNCHANGED <<discVars, uiPort, svcOp, svcHits, svcLookups, opsDone,
                 enrichVars, runVars, gshVars, lifeVars>>

\* the search request is answered
SearchReply(objects) ==
  /\ svcPc = "search"
  /\ LET result == SearchResult(objects, installedPlugins.list)
     IN /\ svcHits' = Len(result)
        /\ IF NeedsFallback(result, svcOp.arg)
             THEN /\ svcPc' = "single"
                  /\ svcLookups' = svcLookups + 1
                  /\ UNCHANGED svcResult
             ELSE /\ svcPc' = "done"
                  /\ svcResult' = ListResult(result)
                  /\ UNCHANGED svcLookups
  /\ UNCHANGED <<discVars, uiPort, svcOp, opsDone, enrichVars, runVars, gshVars, lifeVars>>

\* the exact-name request of searchNpmRegistrySingle settles
SingleReply(resp) ==
  /\ svcPc = "single"
  \* the endpoint answers with the document of the package asked for
  /\ resp.status = 200 => resp.name = svcOp.arg
  /\ svcPc' = "done"
  /\ svcResult' = ListResult(SearchSingle(resp, installedPlugins.list))
  /\ UNCHANGED <<discVars, uiPort, svcOp, svcHits, svcLookups, opsDone,
                 enrichVars, runVars, gshVars, lifeVars>>

\* fs.pathExists(schemaPath) and fs.readJson(schemaPath) settle
SchemaRead ==
  /\ svcPc = "schema"
  /\ svcPc' = "done"
  /\ LET plugin == FindInstalled(installedPlugins.list, svcOp.arg)
     IN svcResult' =
          IF <<plugin.installPath, svcOp.arg>> \in schemaFiles
            THEN SchemaFor(svcOp.arg, uiPort)
            ELSE NotFound
  /\ UNCHANGED <<discVars, uiPort, svcOp, svcHits, svcLookups, opsDone,
                 enrichVars, runVars, gshVars, lifeVars>>

\* the caller has its answer; the next operation may be called
Return ==
  /\ svcPc = "done"
  /\ svcPc' = "idle"
  /\ UNCHANGED <<discVars, uiPort, svcOp, svcResult, svcHits, svcLookups,
                 opsDone, enrichVars, runVars, gshVars, lifeVars>>

LifeOff ==
  /\ customDir = TRUE
  /\ target = Undefined
  /\ cmdRan = "none"
  /\ uninstalled = {}

SvcOff ==
  /\ uiPort = 8080
  /\ svcPc = "off"
  /\ svcOp = Op("none", <<>>)
  /\ svcResult = NoResult
  /\ svcHits = -1
  /\ svcLookups = 0
  /\ opsDone = 0

ValidManifest(n) == Entry("manifest", n, Keywords({"homebridge-plugin", "homebridge"}), V100)

\* the console installed under the global path, under the custom plugin
\* path, or both, and homebridge-alexa under the custom plugin path
SvcSlots == {<<GlobalPath, HbUi>>, <<CustomPath, HbUi>>, <<CustomPath, HbAlexa>>}

SvcDisks ==
  {d \in {[c \in Slots |-> IF c \in on THEN ValidManifest(c[2]) ELSE NoDir] :
            on \in SUBSET SvcSlots} :
     Cardinality(InstalledModules(d)) <= MaxModules}

SvcInit ==
  /\ disk \in SvcDisks
  /\ schemaFiles \in SUBSET {c \in Slots : disk[c].kind = "manifest"}
  /\ customPluginPath = CustomPath
  /\ pass = "off"
  /\ pcs = [c \in Slots |-> "none"]
  /\ local = [c \in Slots |-> EmptyPlugin]
  /\ got = [c \in Slots |-> NoReply]
  /\ plugins = <<>>
  /\ installedPlugins = NoList
  /\ returned = NoList
  /\ uiPort \in UiPorts
  /\ svcPc = "idle"
  /\ svcOp = Op("none", <<>>)
  /\ svcResult = NoResult
  /\ svcHits = -1
  /\ svcLookups = 0
  /\ opsDone = 0

SvcNext ==
  \/ \E q \in Queries : SearchCall(q)
  \/ \E n \in SchemaNames : SchemaCall(n)
  \/ DiscNext
  \/ Discovered
  \/ SearchFails
  \/ \E objects \in SearchReplies : SearchReply(objects)
  \/ \E resp \in SingleReplies : SingleReply(resp)
  \/ SchemaRead
  \/ Return

----------------------------------------------------------------------------
(* installPlugin, uninstallPlugin, updatePlugin and                        *)
(* ensureCustomPluginDirExists                                             *)

\* `return true`
Succeeded == Result("true", <<>>, 0, "")

\* new Error(`Plugin "${pluginName}" Not Found`), or the TypeError of
\* reading installPath of a record that find did not return
PluginNotFound == Result("Error", <<>>, 0, "")

\* the rejection of runNpmCommand, passed on to the caller
CommandRejected == Result("rejected", <<>>, 0, "")

\* the rejection of fs.readdir on a path of this.paths that is gone
DiscoveryRejected == Result("ENOENT", <<>>, 0, "")

LifeOps == {"install", "uninstall", "update"}

LifeNames == {HbUi, HbAlexa}

\* what `npm install <name>@latest` puts in node_modules
LatestManifest(n) ==
  Entry("manifest", n, Keywords({"homebridge-plugin", "homebridge"}), V200)

\* the operation up to `await this.getInstalledPlugins()`: a discovery pass
\* is started whether or not the cache is filled
LifeCall(op, n) ==
  /\ svcPc = "idle"
  /\ opsDone < MaxOps
  /\ opsDone' = opsDone + 1
  /\ svcOp' = Op(op, n)
  /\ svcResult' = NoResult
  /\ svcHits' = -1
  /\ svcLookups' = 0
  /\ svcPc' = "discover"
  /\ pass' = "idle"
  /\ target' = Undefined
  /\ cmdRan' = "none"
  /\ UNCHANGED <<discFrame, uiPort, customDir, uninstalled, enrichVars, runVars, gshVars>>

\* getInstalledModules rejects: the custom plugin path is in this.paths
\* and its directory is gone
DiscoveryFails ==
  /\ svcPc = "discover"
  /\ pass = "idle"
  /\ customPluginPath # Undefined
  /\ ~customDir
  /\ pass' = "off"
  /\ svcPc' = "done"
  /\ svcResult' = DiscoveryRejected
  /\ UNCHANGED <<discFrame, uiPort, svcOp, svcHits, svcLookups, opsDone,
                 lifeVars, enrichVars, runVars, gshVars>>

\* the record whose installPath the operation uses
PathSource(op, n) ==
  IF op = "install" THEN HbUi ELSE n

\* the operation from the return of discovery to `await this.runNpmCommand`
LifeDiscovered ==
  /\ svcPc = "discover"
  /\ svcOp.name \in LifeOps
  /\ pass = "returned"
  /\ pass' = "off"
  /\ LET installed == installedPlugins.list
         src == PathSource(svcOp.name, svcOp.arg)
     IN IF svcOp.name = "install" /\ customPluginPath # Undefined
          THEN svcPc' = "npm" /\ target' = customPluginPath /\ UNCHANGED svcResult
          ELSE IF ~FindName(installed, src)
            THEN svcPc' = "done" /\ svcResult' = PluginNotFound /\ UNCHANGED target
            ELSE /\ svcPc' = "npm"
                 /\ target' = FindInstalled(installed, src).installPath
                 /\ UNCHANGED svcResult
  /\ UNCHANGED <<discFrame, uiPort, svcOp, svcHits, svcLookups, opsDone,
                 customDir, cmdRan, uninstalled, enrichVars, runVars, gshVars>>

\* the directories of the custom plugin path once `gone` is removed
LeftInCustom(d, gone) ==
  {c \in InstalledModules(d) : c[1] = customPluginPath /\ c # gone}

\* the promise of runNpmCommand settles: the command has exited with code 0
\* (ok) or another code. An install or update puts the latest version in
\* place; an uninstall removes the package's directory, and npm may remove
\* node_modules with its last package (wiped). A failed uninstall may fail
\* before or after the removal.
NpmSettles(ok, changed, wiped) ==
  /\ svcPc = "npm"
  /\ ok => changed
  /\ (~ok /\ svcOp.name # "uninstall") => ~changed
  /\ LET slot == <<target, svcOp.arg>>
     IN /\ wiped => /\ svcOp.name = "uninstall"
                    /\ changed
                    /\ target = customPluginPath
                    /\ LeftInCustom(disk, slot) = {}
        /\ disk' = IF ~changed THEN disk
                   ELSE IF svcOp.name = "uninstall" THEN [disk EXCEPT ![slot] = NoDir]
                   ELSE [disk EXCEPT ![slot] = LatestManifest(svcOp.arg)]
        /\ schemaFiles' = IF changed /\ svcOp.name = "uninstall"
                            THEN schemaFiles \ {slot} ELSE schemaFiles
        /\ customDir' = IF wiped THEN FALSE
                        ELSE IF changed /\ svcOp.name # "uninstall" /\ target = customPluginPath
                          THEN TRUE ELSE customDir
  /\ cmdRan' = IF ok THEN "ok" ELSE "failed"
  /\ uninstalled' = IF svcOp.name = "uninstall" /\ ok THEN uninstalled \cup {svcOp.arg}
                    ELSE IF svcOp.name # "uninstall" /\ changed
                      THEN uninstalled \ {svcOp.arg}
                    ELSE uninstalled
  /\ IF ~ok THEN svcPc' = "done" /\ svcResult' = CommandRejected
     ELSE IF svcOp.name = "uninstall" THEN svcPc' = "ensure" /\ UNCHANGED svcResult
     ELSE svcPc' = "done" /\ svcResult' = Succeeded
  /\ UNCHANGED <<customPluginPath, pass, pcs, local, got, plugins,
                 installedPlugins, returned, uiPort, svcOp, svcHits, svcLookups,
                 opsDone, target, enrichVars, runVars, gshVars>>

\* ensureCustomPluginDirExists and the `return true` of uninstallPlugin;
\* `created` is whether fs.ensureDir resolved (its rejection is caught)
EnsureCustomPluginDirExists(created) ==
  /\ svcPc = "ensure"
  /\ IF customPluginPath = Undefined \/ customDir
       THEN created /\ UNCHANGED customDir
       ELSE customDir' = created
  /\ svcPc' = "done"
  /\ svcResult' = Succeeded
  /\ UNCHANGED <<discVars, uiPort, svcOp, svcHits, svcLookups, opsDone,
                 target, cmdRan, uninstalled, enrichVars, runVars, gshVars>>

LifeInit ==
  /\ disk \in SvcDisks
  /\ schemaFiles = {}
  /\ customPluginPath = CustomPath
  /\ pass = "off"
  /\ pcs = [c \in Slots |-> "none"]
  /\ local = [c \in Slots |-> EmptyPlugin]
  /\ got = [c \in Slots |-> NoReply]
  /\ plugins = <<>>
  /\ installedPlugins = NoList
  /\ returned = NoList
  /\ uiPort = 8080
  /\ svcPc = "idle"
  /\ svcOp = Op("none", <<>>)
  /\ svcResult = NoResult
  /\ svcHits = -1
  /\ svcLookups = 0
  /\ opsDone = 0
  /\ LifeOff

LifeNext ==
  \/ \E op \in LifeOps, n \in LifeNames : LifeCall(op, n)
  \/ DiscoveryFails
  \/ LifeDiscovered
  \/ \E ok, changed, wiped \in BOOLEAN : NpmSettles(ok, changed, wiped)
  \/ \E created \in BOOLEAN : EnsureCustomPluginDirExists(created)
  \/ SvcNext

----------------------------------------------------------------------------
(* HomebridgeGoogleSmarthomeComponent *)

LinkDomain == "https://homebridge-gsh.iot.oz.nu"

OtherOrigin == "https://elsewhere.example"

Origins == {LinkDomain, OtherOrigin}

\* schema.pluginAlias, and the platform of an entry of another plugin
PluginAlias == "google-smarthome"
OtherPlatform == "config"

\* no token property; a token jwtHelper decodes; a token it throws on
NoToken == "none"
GoodToken == "jwt"
BadToken == "garbage"

\* an object of the config, with its identity
Platform(oid, platform, token) == [oid |-> oid, platform |-> platform, token |-> token]

\* this.pluginConfig before ngOnInit
NoConfig == Platform(0, "", NoToken)

\* { name: 'Google Smart Home', platform: this.schema.pluginAlias }
NewPluginConfig(oid) == Platform(oid, PluginAlias, NoToken)

\* e.origin and e.data of a window message: data that JSON.parse accepts,
\* with or without a token property, or data it throws on
Message(origin, json, token) == [origin |-> origin, json |-> json, token |-> token]

Messages ==
  {Message(o, TRUE, t) : o \in Origins, t \in {NoToken, GoodToken, BadToken}}
    \cup {Message(o, FALSE, NoToken) : o \in Origins}

\* the platform entries a config can hold at a position
InitialEntries(oid) ==
  {Platform(oid, PluginAlias, t) : t \in {NoToken, GoodToken, BadToken}}
    \cup {Platform(oid, OtherPlatform, NoToken)}

InitialPlatforms ==
  {NoList} \cup
  {SomeList(l) : l \in
     {q \in UNION {[1..n -> UNION {InitialEntries(i) : i \in 1..MaxPlatforms}] :
                     n \in 0..MaxPlatforms} :
        \A i \in 1..Len(q) : q[i].oid = i}}

\* platforms.findIndex(x => x.platform === this.schema.pluginAlias)
FindAliasIndex(list) ==
  IF \E i \in 1..Len(list) : list[i].platform = PluginAlias
    THEN (CHOOSE i \in 1..Len(list) :
            /\ list[i].platform = PluginAlias
            /\ \A j \in 1..(i - 1) : list[j].platform # PluginAlias) - 1
    ELSE -1

\* list.splice(start, 1): a negative start counts from the end of the list
SpliceOne(list, start) ==
  LET from == IF start < 0
                THEN (IF Len(list) + start < 0 THEN 0 ELSE Len(list) + start)
                ELSE (IF start > Len(list) THEN Len(list) ELSE start)
  IN IF from >= Len(list) THEN list
     ELSE SubSeq(list, 1, from) \o SubSeq(list, from + 2, Len(list))

\* a property write through a reference: the object with this identity
\* gets the token wherever the list holds it
WithToken(list, oid, token) ==
  [i \in 1..Len(list) |->
     IF list[i].oid = oid THEN [list[i] EXCEPT !.token = token] ELSE list[i]]

\* parseToken: the token left on pluginConfig (deleted when decodeToken throws)
ParsedToken(token) == IF token = BadToken THEN NoToken ELSE token

\* parseToken: this.linkType
ParsedLinkType(token, old) == IF token = GoodToken THEN "google" ELSE old

NgOnInit ==
  /\ listening
  /\ events < MaxEvents
  /\ events' = events + 1
  /\ inited' = TRUE
  /\ LET list == IF platforms.defined THEN platforms.list ELSE <<>>
         index == FindAliasIndex(list)
         config == IF index >= 0 THEN list[index + 1] ELSE NewPluginConfig(nextOid)
     IN /\ nextOid' = IF index >= 0 THEN nextOid ELSE nextOid + 1
        /\ pluginConfig' = [config EXCEPT !.token = ParsedToken(config.token)]
        /\ platforms' = SomeList(WithToken(list, config.oid, ParsedToken(config.token)))
        /\ linkType' = ParsedLinkType(config.token, linkType)
  /\ UNCHANGED <<popup, originCheckInterval, justLinked, posts, listening, errors>>
  /\ UNCHANGED <<discVars, enrichVars, runVars, svcVars, lifeVars>>

\* processToken(token) called by the listener inside its try, after the
\* listener has logged `logged` errors: the state it leaves, with the
\* TypeError of an undefined pluginConfig caught and logged by the listener
ProcessToken(token, logged) ==
  /\ originCheckInterval' = FALSE
  /\ popup' = FALSE
  /\ IF pluginConfig = NoConfig
       THEN /\ errors' = logged + 1
            /\ UNCHANGED <<pluginConfig, platforms, linkType, posts>>
       ELSE LET set == WithToken(platforms.list, pluginConfig.oid, token)
                pushed == IF FindAliasIndex(set) >= 0 THEN set
                          ELSE Append(set, [pluginConfig EXCEPT !.token = token])
                parsed == WithToken(pushed, pluginConfig.oid, ParsedToken(token))
            IN /\ pluginConfig' = [pluginConfig EXCEPT !.token = ParsedToken(token)]
               /\ platforms' = SomeList(parsed)
               /\ linkType' = ParsedLinkType(token, linkType)
               /\ posts' = Append(posts, parsed)
               /\ errors' = logged

\* the two console.error calls of a message from another origin
RefusalLogs(e) == IF e.origin # LinkDomain THEN 2 ELSE 0

\* windowMessageListener: the origin test logs, and the listener goes on to
\* parse the data and process its token
WindowMessage(e) ==
  /\ listening
  /\ events < MaxEvents
  /\ events' = events + 1
  /\ IF ~e.json
       THEN /\ errors' = errors + RefusalLogs(e) + 1
            /\ UNCHANGED <<pluginConfig, platforms, linkType, posts, popup,
                           originCheckInterval>>
       ELSE IF e.token = NoToken
         THEN /\ errors' = errors + RefusalLogs(e)
              /\ UNCHANGED <<pluginConfig, platforms, linkType, posts, popup,
                             originCheckInterval>>
         ELSE ProcessToken(e.token, errors + RefusalLogs(e))
  /\ UNCHANGED <<inited, justLinked, nextOid, listening>>
  /\ UNCHANGED <<discVars, enrichVars, runVars, svcVars, lifeVars>>

LinkAccount ==
  /\ listening
  /\ inited
  /\ events < MaxEvents
  /\ events' = events + 1
  /\ popup' = TRUE
  /\ originCheckInterval' = TRUE
  /\ UNCHANGED <<inited, platforms, pluginConfig, linkType, justLinked, posts,
                 nextOid, listening, errors>>
  /\ UNCHANGED <<discVars, enrichVars, runVars, svcVars, lifeVars>>

UnlinkAccount ==
  /\ listening
  /\ inited
  /\ events < MaxEvents
  /\ events' = events + 1
  /\ pluginConfig' = NewPluginConfig(nextOid)
  /\ nextOid' = nextOid + 1
  /\ LET existingConfigIndex == FindAliasIndex(platforms.list)
         left == SpliceOne(platforms.list, existingConfigIndex)
     IN /\ platforms' = SomeList(left)
        /\ posts' = Append(posts, left)
  /\ UNCHANGED <<inited, linkType, popup, originCheckInterval, justLinked,
                 listening, errors>>
  /\ UNCHANGED <<discVars, enrichVars, runVars, svcVars, lifeVars>>

\* the answer to a post of saveConfig
SaveResult(ok) ==
  /\ posts # <<>>
  /\ posts' = Tail(posts)
  /\ justLinked' = IF ok THEN TRUE ELSE justLinked
  /\ UNCHANGED <<inited, platforms, pluginConfig, linkType, popup,
                 originCheckInterval, nextOid, events, listening, errors>>
  /\ UNCHANGED <<discVars, enrichVars, runVars, svcVars, lifeVars>>

NgOnDestroy ==
  /\ listening
  /\ inited
  /\ listening' = FALSE
  /\ originCheckInterval' = FALSE
  /\ popup' = FALSE
  /\ UNCHANGED <<inited, platforms, pluginConfig, linkType, justLinked, posts,
                 nextOid, events, errors>>
  /\ UNCHANGED <<discVars, enrichVars, runVars, svcVars, lifeVars>>

GshOff ==
  /\ inited = FALSE
  /\ platforms = NoList
  /\ pluginConfig = NoConfig
  /\ linkType = ""
  /\ popup = FALSE
  /\ originCheckInterval = FALSE
  /\ justLinked = FALSE
  /\ posts = <<>>
  /\ nextOid = 1
  /\ events = 0
  /\ listening = FALSE
  /\ errors = 0

\* the component constructed with its inputs, before ngOnInit
GshInit ==
  /\ inited = FALSE
  /\ platforms \in InitialPlatforms
  /\ pluginConfig = NoConfig
  /\ linkType = ""
  /\ popup = FALSE
  /\ originCheckInterval = FALSE
  /\ justLinked = FALSE
  /\ posts = <<>>
  /\ nextOid = MaxPlatforms + 1
  /\ events = 0
  /\ listening = TRUE
  /\ errors = 0

GshNext ==
  \/ NgOnInit
  \/ \E e \in Messages : WindowMessage(e)
  \/ LinkAccount
  \/ UnlinkAccount
  \/ \E ok \in BOOLEAN : SaveResult(ok)
  \/ NgOnDestroy

----------------------------------------------------------------------------
(* Specifications *)

\* one discovery pass over an arbitrary disk
Init == DiscInit /\ EnrichOff /\ RunOff /\ SvcOff /\ LifeOff /\ GshOff

Next == DiscNext

Spec == Init /\ [][Next]_vars

\* one enrichment of an arbitrary manifest
InitEnrich == DiscOff /\ EnrichInit /\ RunOff /\ SvcOff /\ LifeOff /\ GshOff

SpecEnrich == InitEnrich /\ [][EnrichNext]_vars

\* one run of runNpmCommand
InitRunner == DiscOff /\ EnrichOff /\ RunInit /\ SvcOff /\ LifeOff /\ GshOff

SpecRunner == InitRunner /\ [][RunNext]_vars

\* the same under the event loop's scheduling: a settled probe, a readable
\* chunk, an exit and an armed timer are each handled eventually, and a
\* process that SIGTERM ends does end. That a process exits by itself or
\* keeps writing is not assumed.
RunnerFairness ==
  /\ WF_vars(RunStart)
  /\ WF_vars(AccessSettles)
  /\ WF_vars(DataEvent)
  /\ WF_vars(ExitEvent)
  /\ WF_vars(TimerFires)
  /\ WF_vars(\E code \in ExitCodes : ProcKilled(code))

FairRunner == SpecRunner /\ RunnerFairness

\* operations of the service called one after the other
InitService == SvcInit /\ EnrichOff /\ RunOff /\ LifeOff /\ GshOff

SpecService == InitService /\ [][SvcNext]_vars

\* operations that install and remove plugins, and operations that read
\* the cache, called one after the other
InitLife == LifeInit /\ EnrichOff /\ RunOff /\ GshOff

SpecLife == InitLife /\ [][LifeNext]_vars

\* the life of one HomebridgeGoogleSmarthomeComponent
InitGsh == DiscOff /\ EnrichOff /\ RunOff /\ SvcOff /\ LifeOff /\ GshInit

SpecGsh == InitGsh /\ [][GshNext]_vars

----------------------------------------------------------------------------
(* Properties of one discovery pass (Spec) *)

Elems(list) == {list[i] : i \in 1..Len(list)}

UniqueNames(list) ==
  \A i, j \in 1..Len(list) : list[i].name = list[j].name => i = j

\* a candidate directory that is an installed homebridge plugin
ValidPlugin(c) ==
  /\ IndexOf(c[2], "homebridge-") = 0
  /\ disk[c].kind = "manifest"
  /\ disk[c].keywords.present
  /\ "homebridge-plugin" \in disk[c].keywords.words

\* name n is installed under the custom plugin path and under a global path
InstalledTwice(n) ==
  /\ \E c \in Slots : ValidPlugin(c) /\ disk[c].name = n /\ c[1] = customPluginPath
  /\ \E c \in Slots : ValidPlugin(c) /\ disk[c].name = n /\ c[1] # customPluginPath

\* C1: whatever the completion order of the per-candidate steps, the array
\* of the pass, the returned list and the cache hold at most one record per
\* plugin name, and a name installed under both the custom plugin path and a
\* global path is returned as its custom-path record (globalInstall = false).
C1_OneRecordPerName ==
  /\ UniqueNames(plugins)
  /\ pass = "returned" =>
       /\ UniqueNames(returned.list)
       /\ UniqueNames(installedPlugins.list)
       /\ \A n \in ManifestNames : InstalledTwice(n) =>
            \A r \in Elems(returned.list) \cup Elems(installedPlugins.list) :
              r.name = n => (r.globalInstall = FALSE /\ r.installPath = customPluginPath)

\* a pass has returned for a name installed twice, and its record is there
C1_Witness ==
  /\ pass = "returned"
  /\ \E n \in ManifestNames :
       /\ InstalledTwice(n)
       /\ \E r \in Elems(returned.list) : r.name = n /\ ~r.globalInstall

\* the candidate directory a record was parsed from
Origin(r) == <<r.installPath, r.dir>>

\* C2: no record that getInstalledPlugins collects, returns or caches comes
\* from a candidate directory whose name does not start with 'homebridge-',
\* that has no package.json, or whose keywords lack 'homebridge-plugin'.
C2_OnlyValidCandidates ==
  \A r \in Elems(plugins) \cup Elems(returned.list) \cup Elems(installedPlugins.list) :
    /\ IndexOf(r.dir, "homebridge-") = 0
    /\ disk[Origin(r)].kind = "manifest"
    /\ disk[Origin(r)].keywords.present
    /\ "homebridge-plugin" \in disk[Origin(r)].keywords.words

\* a pass has returned a record although the disk holds a directory of each
\* excluded kind
C2_Witness ==
  /\ pass = "returned"
  /\ Len(returned.list) > 0
  /\ \E c \in Slots :
       \/ disk[c].kind = "manifest" /\ IndexOf(c[2], "homebridge-") # 0
                                    /\ "homebridge-plugin" \in disk[c].keywords.words
       \/ disk[c].kind = "no-manifest" /\ IndexOf(c[2], "homebridge-") = 0
       \/ disk[c].kind = "manifest" /\ IndexOf(c[2], "homebridge-") = 0
                                    /\ "homebridge-plugin" \notin disk[c].keywords.words

RegistryFailed(c) == got[c].status \in {0, 404}

\* C6: a registry failure while enriching one plugin does not abort the
\* pass or drop the candidate; once the pass has returned, every installed
\* plugin's name has a record, every record is the one its own candidate and
\* its own registry reply produce, and a record whose lookup failed has
\* publicPackage = false, no latestVersion and updateAvailable = false.
C6_FailureDegradesOneRecord ==
  /\ \A c \in Slots : RegistryFailed(c) => pcs[c] \in {"commit", "done"}
  /\ pass = "returned" =>
       /\ \A c \in Slots : ValidPlugin(c) =>
            \E r \in Elems(returned.list) : r.name = disk[c].name
       /\ \A r \in Elems(returned.list) :
            /\ r.installedVersion = V100
            /\ got[Origin(r)].status = 200 =>
                 /\ r.publicPackage = TRUE
                 /\ r.latestVersion = got[Origin(r)].latest
            /\ RegistryFailed(Origin(r)) =>
                 /\ r.publicPackage = FALSE
                 /\ r.latestVersion = NullV
                 /\ r.updateAvailable = FALSE

\* a pass has returned two records, one whose lookup failed and one whose
\* lookup succeeded
C6_Witness ==
  /\ pass = "returned"
  /\ \E r1, r2 \in Elems(returned.list) :
       /\ RegistryFailed(Origin(r1))
       /\ ~r1.publicPackage
       /\ got[Origin(r2)].status = 200
       /\ r2.publicPackage

----------------------------------------------------------------------------
(* Properties of one enrichment (SpecEnrich) *)

\* precedence of prerelease identifiers (semver.org, item 11)
IdPrecedes(x, y) ==
  \/ x.num /\ y.num /\ x.n < y.n
  \/ x.num /\ ~y.num
  \/ ~x.num /\ ~y.num /\ AlphaRank(x.s) < AlphaRank(y.s)

PrePrecedes(p, q) ==
  \E k \in 1..(Len(p) + 1) :
    /\ k <= Len(q)
    /\ \A j \in 1..(k - 1) : p[j] = q[j]
    /\ (k = Len(p) + 1 \/ IdPrecedes(p[k], q[k]))

\* version a is strictly lower than version b in semver precedence
Precedes(a, b) ==
  \/ a.major < b.major
  \/ a.major = b.major /\ a.minor < b.minor
  \/ a.major = b.major /\ a.minor = b.minor /\ a.patch < b.patch
  \/ /\ a.major = b.major /\ a.minor = b.minor /\ a.patch = b.patch
     /\ \/ Len(a.pre) > 0 /\ Len(b.pre) = 0
        \/ Len(a.pre) > 0 /\ Len(b.pre) > 0 /\ PrePrecedes(a.pre, b.pre)

\* C5: after enrichment updateAvailable is true exactly when the registry
\* answered with a latest version and the installed version is strictly
\* lower in semver precedence; it is false when no installed version is
\* known.
C5_UpdateAvailableIffLower ==
  enrichPc = "done" =>
    /\ enrichOut.updateAvailable =
         (/\ enrichOut.installedVersion.kind = "semver"
          /\ enrichGot.status = 200
          /\ enrichGot.latest.kind = "semver"
          /\ Precedes(enrichOut.installedVersion, enrichGot.latest))
    /\ enrichOut.installedVersion.kind # "semver" => enrichOut.updateAvailable = FALSE
    /\ enrichOut.updateAvailable => enrichOut.latestVersion = enrichGot.latest

\* an enrichment found an update from a prerelease to its release
C5_Witness ==
  /\ enrichPc = "done"
  /\ enrichOut.updateAvailable
  /\ Len(enrichOut.installedVersion.pre) > 0
  /\ Len(enrichOut.latestVersion.pre) = 0
  /\ enrichOut.installedVersion.major = enrichOut.latestVersion.major
  /\ enrichOut.installedVersion.minor = enrichOut.latestVersion.minor
  /\ enrichOut.installedVersion.patch = enrichOut.latestVersion.patch

----------------------------------------------------------------------------
(* Properties of one run of runNpmCommand (SpecRunner, FairRunner) *)

\* the process output that reached the sink, in the order it was emitted
TermTexts(msgs) ==
  LET FromTerm(m) == m.from = "term"
      kept == SelectSeq(msgs, FromTerm)
  IN [i \in 1..Len(kept) |-> kept[i].text]

IsSuccess(m) == m.from = "runner" /\ m.text = "Command succeeded!."

SuccessCount(msgs) == Cardinality({i \in 1..Len(msgs) : IsSuccess(msgs[i])})

Settled == runPc \in {"resolved", "rejected"}

\* C3: the run resolves exactly on exit code 0, and then the sink holds
\* every chunk the process wrote, in order, followed by the one success
\* message as its last line; on any other code it rejects with the generic
\* 'Command failed' reason and the sink never holds a success message.
C3_ExitCodeDecidesOutcome ==
  /\ TermTexts(sink) \o ptyBuf = written
  /\ runPc = "resolved" =>
       /\ exitCode = 0
       /\ TermTexts(sink) = written
       /\ IsSuccess(sink[Len(sink)])
       /\ SuccessCount(sink) = 1
  /\ runPc = "rejected" =>
       /\ exitCode # 0
       /\ runError = "Command failed. Please review log for details."
  /\ runPc # "resolved" => SuccessCount(sink) = 0

\* a command that wrote two chunks and exited with 0 has resolved
C3_Witness ==
  /\ runPc = "resolved"
  /\ Len(written) >= 2
  /\ exitCode = 0

\* C4 (as claimed): every run of runNpmCommand eventually resolves or
\* rejects, also for a command that never exits on its own.
C4_AlwaysSettles == <>Settled

IsAccessWarning(m) ==
  m.from = "runner" /\ m.text = "warn: no write access to the target directory"

\* C10: without sudo mode the write access of the working directory is
\* probed, a failed probe puts the warning on the sink and the command is
\* spawned all the same (only an exit code rejects the run); in sudo mode
\* no probe is made and the command is spawned as sudo -E -n <command>.
C10_ProbeWarnsSudoPrefixes ==
  /\ uiSudo =>
       /\ ~probed
       /\ proc # "none" =>
            /\ spawned.file = "sudo"
            /\ Len(spawned.args) >= 3
            /\ SubSeq(spawned.args, 1, 3) = <<"-E", "-n", "npm">>
  /\ (~uiSudo /\ runPc \notin {"called"}) => probed
  /\ (~uiSudo /\ runPc \notin {"called", "probe"}) =>
       /\ proc # "none"
       /\ spawned.file = "npm"
       /\ cwdWritable <=> ~IsAccessWarning(sink[1])
  /\ runPc = "rejected" => (proc = "exited" /\ exitCode \notin {0, -1})

\* a run whose probe failed has spawned its command and resolved
C10_Witness ==
  /\ ~uiSudo
  /\ ~cwdWritable
  /\ runPc = "resolved"
  /\ IsAccessWarning(sink[1])
  /\ spawned.file = "npm"

\* the query begins with the plugin prefix
Prefixed(q) == Len(q) > 0 /\ q[1] = "homebridge-"

\* the record of the installed plugin cache with this name
Cached(n) == {r \in Elems(installedPlugins.list) : r.name = n}

\* C7: searchNpmRegistry sends its search request only once a discovery
\* pass has filled the installed plugin cache, and every record of its
\* result whose name is the name of a cached record is that cached record,
\* with its installed version, install path and flags, never one built
\* from the registry's data.
C7_InstalledRecordWins ==
  svcOp.name = "search" =>
    /\ svcPc \in {"search", "single", "done"} => installedPlugins.defined
    /\ svcPc = "discover" => ~installedPlugins.defined \/ pass = "returned"
    /\ \A i \in 1..Len(svcResult.list) :
         Cached(svcResult.list[i].name) # {} =>
           svcResult.list[i] \in Cached(svcResult.list[i].name)

C7_Witness ==
  /\ svcOp.name = "search"
  /\ svcPc = "done"
  /\ opsDone = 1
  /\ Len(svcResult.list) = 2
  /\ \E i, j \in 1..2 :
       /\ Cached(svcResult.list[i].name) # {}
       /\ svcResult.list[i].installedVersion = V100
       /\ Cached(svcResult.list[j].name) = {}
       /\ svcResult.list[j].installedVersion = NullV

\* C8: once the keyword search of searchNpmRegistry is answered, the
\* exact-name lookup is made exactly when the search gave no plugin-named
\* result and the query begins with 'homebridge-', and the operation then
\* returns at most one record; otherwise no exact-name lookup is made.
C8_FallbackOnlyWhenEmptyAndPrefixed ==
  (svcOp.name = "search" /\ svcHits >= 0) =>
    IF svcHits = 0 /\ Prefixed(svcOp.arg)
      THEN /\ svcLookups = 1
           /\ svcPc \in {"single", "done", "idle"}
           /\ svcPc # "single" => svcResult.kind = "list"
           /\ Len(svcResult.list) <= 1
      ELSE /\ svcLookups = 0
           /\ svcPc \in {"done", "idle"}
           /\ svcResult.kind = "list"
           /\ Len(svcResult.list) = svcHits

C8_Witness ==
  /\ svcOp.name = "search"
  /\ svcPc = "done"
  /\ svcHits = 0
  /\ svcLookups = 1
  /\ Len(svcResult.list) = 1

\* C9: getPluginConfigSchema(name) ends with NotFound when no discovered
\* plugin has the name or when the discovered plugin's directory has no
\* config.schema.json, and for the console's own plugin with a schema file
\* it returns the schema with the port default set to the configured port.
C9_SchemaOrNotFound ==
  (svcOp.name = "schema" /\ svcPc = "done") =>
    LET n == svcOp.arg
        hasFile == \E r \in Cached(n) : <<r.installPath, n>> \in schemaFiles
    IN /\ ~hasFile => svcResult = NotFound
       /\ hasFile => svcResult.kind = "schema"
       /\ (hasFile /\ n = HbUi) => svcResult.port = uiPort

C9_Witness ==
  /\ svcOp = Op("schema", HbUi)
  /\ svcPc = "done"
  /\ svcResult.kind = "schema"
  /\ svcResult.port = uiPort
  /\ uiPort # SchemaFile.port

\* C11: with a custom plugin path configured, once uninstallPlugin has run
\* its uninstall command and has finished, whether the command succeeded or
\* failed, the custom plugin directory exists.
C11_CustomDirExistsAfterUninstall ==
  (/\ svcOp.name = "uninstall"
   /\ svcPc = "done"
   /\ cmdRan # "none"
   /\ customPluginPath # Undefined) => customDir

\* the names of the model in ascending string order
NameBefore(a, b) ==
  \/ a = b
  \/ a = HbAlexa
  \/ a = HbUi /\ b # HbAlexa

\* C12: the list returned by getInstalledPlugins holds the committed records
\* with those that have an update first and, among records that agree on
\* updateAvailable, names ascending, whatever order the callbacks finished in.
C12_ReturnedListOrdered ==
  returned.defined =>
    /\ Len(returned.list) = Len(plugins)
    /\ Elems(returned.list) = Elems(plugins)
    /\ \A i, j \in 1..Len(returned.list) :
         i < j =>
           /\ returned.list[j].updateAvailable => returned.list[i].updateAvailable
           /\ returned.list[i].updateAvailable = returned.list[j].updateAvailable
                => NameBefore(returned.list[i].name, returned.list[j].name)

C12_Witness ==
  /\ returned.defined
  /\ Len(returned.list) = 2
  /\ returned.list # plugins
  /\ returned.list[1].name = HbUi
  /\ returned.list[1].updateAvailable
  /\ ~returned.list[2].updateAvailable

\* C13: when the keyword search gave nothing for a query beginning with
\* 'homebridge-' and the get-by-name endpoint answers with the package of
\* that name, carrying the 'homebridge-plugin' keyword and not installed,
\* searchNpmRegistry returns exactly one record, with that name,
\* publicPackage = true and latestVersion = dist-tags.latest.
C13_ExactNameLookupReturnsRecord ==
  [][\A resp \in SingleReplies :
       (/\ SingleReply(resp)
        /\ resp.status = 200
        /\ HasPluginKeyword(resp)
        /\ ~FindName(installedPlugins.list, resp.name))
         => /\ svcResult'.kind = "list"
            /\ Len(svcResult'.list) = 1
            /\ svcResult'.list[1].name = svcOp.arg
            /\ svcResult'.list[1].publicPackage
            /\ svcResult'.list[1].latestVersion = resp.latest]_vars

\* the name has no directory under any search path
NotOnDisk(n) == \A c \in Slots : c[2] = n => disk[c].kind = "no-dir"

\* C14: a search that follows a successful uninstallPlugin(P) does not
\* return P as an installed record: once P's uninstall command has
\* succeeded and P is in no search path, a record named P in a search
\* result has no install path and no installed version.
C14_SearchAfterUninstallIsFresh ==
  (svcOp.name = "search" /\ svcPc = "done") =>
    \A i \in 1..Len(svcResult.list) :
      (svcResult.list[i].name \in uninstalled /\ NotOnDisk(svcResult.list[i].name))
        => /\ svcResult.list[i].installPath = Undefined
           /\ svcResult.list[i].installedVersion \in {NullV, UndefinedV}

\* the entries of other plugins, in their order
OtherEntries(list) ==
  LET Other(x) == x.platform # PluginAlias IN SelectSeq(list, Other)

\* C15: a window message whose origin is not linkDomain is refused: the
\* listener leaves pluginConfig and homebridgeConfig as they are and posts
\* no config, even when the message's data holds a token.
C15_OtherOriginRefused ==
  [][\A e \in Messages :
       (WindowMessage(e) /\ e.origin # LinkDomain)
         => UNCHANGED <<pluginConfig, platforms, posts>>]_vars

\* C16: unlinkAccount removes from homebridgeConfig.platforms at most one
\* entry, one whose platform is schema.pluginAlias, and leaves the entries
\* of every other platform as they are, also when the list holds no entry
\* for the alias.
C16_UnlinkKeepsOtherPlatforms ==
  [][UnlinkAccount =>
       /\ OtherEntries(platforms'.list) = OtherEntries(platforms.list)
       /\ Len(platforms'.list) >= Len(platforms.list) - 1]_vars

====
